---- MODULE Spec2Model ----
(***************************************************************************)
(* A model of the constant_time_eq crate: the generic word-at-a-time       *)
(* engine (src/src/generic.rs), the SSE2 and NEON vector engines           *)
(* (src/src/sse2.rs, src/src/neon.rs), the public entry points             *)
(* (src/src/lib.rs), the bit-flip test driver (src/tests/exhaustive.rs)    *)
(* and the DIT wrapper (src/src/dit.rs).                                   *)
(*                                                                         *)
(* Bytes are the integers 0..255.  A machine word, a chunk read from       *)
(* memory and a vector register are sequences of bytes, least significant  *)
(* byte first (the layout of a little-endian target: x86, aarch64).        *)
(* A slice is the pair (ptr, len) it is in Rust, ptr counted in bytes      *)
(* from the start of the buffer it points into.                            *)
(***************************************************************************)
EXTENDS Integers, Sequences, FiniteSets, TLC

\* ------------------------------------------------------------------ bounds

\* Longest input compared.
MaxLen == 64

\* Largest difference between the lengths of the two inputs of one call.
MaxLenDiff == 1

\* Longest input of the generic engine, in bytes and in natural words: it is
\* run on the lengths up to MaxWords * W + W - 1, and no longer than
\* MaxGenericLen.
MaxGenericLen == 24
MaxWords == 3

\* Threads of the process.
NThreads == 2

\* Deepest nesting of with_dit calls, with_dit calls of a thread (nested
\* ones included), and calls of set_aarch64_dit_sb_features of a thread.
MaxDepth == 2
MaxCalls == 2
MaxOverrides == 1

\* ------------------------------------------------------------ byte algebra

RECURSIVE XorBits(_, _, _)
\* Bitwise exclusive or of the low k bits of x and y.
XorBits(x, y, k) ==
    IF k = 0 THEN 0
    ELSE (((x % 2) + (y % 2)) % 2) + 2 * XorBits(x \div 2, y \div 2, k - 1)

RECURSIVE OrBits(_, _, _)
\* Bitwise or of the low k bits of x and y.
OrBits(x, y, k) ==
    IF k = 0 THEN 0
    ELSE (IF (x % 2) + (y % 2) > 0 THEN 1 ELSE 0) + 2 * OrBits(x \div 2, y \div 2, k - 1)

RECURSIVE AndBits(_, _, _)
\* Bitwise and of the low k bits of x and y.
AndBits(x, y, k) ==
    IF k = 0 THEN 0
    ELSE ((x % 2) * (y % 2)) + 2 * AndBits(x \div 2, y \div 2, k - 1)

\* The values of a byte.
Bytes == 0..255

\* The ^, | and & of two bytes, tabulated.
XorByte == [x \in Bytes |-> [y \in Bytes |-> XorBits(x, y, 8)]]
OrByte == [x \in Bytes |-> [y \in Bytes |-> OrBits(x, y, 8)]]
AndByte == [x \in Bytes |-> [y \in Bytes |-> AndBits(x, y, 8)]]

\* The ^, | and & of two equally wide values, byte by byte.
XorWord(x, y) == [i \in 1..Len(x) |-> XorByte[x[i]][y[i]]]
OrWord(x, y) == [i \in 1..Len(x) |-> OrByte[x[i]][y[i]]]
AndWord(x, y) == [i \in 1..Len(x) |-> AndByte[x[i]][y[i]]]

\* The value 0 of a type that is w bytes wide.
ZeroWord(w) == [i \in 1..w |-> 0]

\* x == 0
IsZero(x) == \A i \in 1..Len(x) : x[i] = 0

\* `x as Word` for an unsigned x: the low w bytes, zero-extended.
AsWord(x, w) == [i \in 1..w |-> IF i <= Len(x) THEN x[i] ELSE 0]

\* The bytes mem[ptr .. ptr+size), ptr counted from 0.  The engines only read
\* inside the buffer; a read that leaves it is recorded in the run (oob).
ReadBytes(mem, ptr, size) ==
    [i \in 1..size |-> IF ptr + i \in 1..Len(mem) THEN mem[ptr + i] ELSE 0]

\* Whether a read of mem[ptr .. ptr+size) leaves the buffer.
OutOfBounds(mem, ptr, size) == size > 0 /\ (ptr < 0 \/ ptr + size > Len(mem))

\* ------------------------------------------------------------ generic.rs

\* size_of::<u128>(), ::<u64>(), ::<u32>(), ::<u16>(), ::<u8>()
SizeU128 == 16
SizeU64 == 8
SizeU32 == 4
SizeU16 == 2
SizeU8 == 1


\* optimizer_hide: the value is passed unchanged through an empty asm block.
optimizer_hide(value) == value

\* One more branch decision of the run.
Branch(r, label, taken) == [r EXCEPT !.trace = Append(@, <<label, taken>>)]

\* The return of the engine.
Return(r, value) == [r EXCEPT !.pc = "done", !.ret = value]

\* read_unaligned_from_slice::<T>(&s[..size_of::<T>()])
read_unaligned_from_slice(mem, s, size) == ReadBytes(mem, s.ptr, size)

\* &s[k..]
SliceFrom(s, k) == [ptr |-> s.ptr + k, len |-> s.len - k]

\* cmp_step::<T>: the XOR of the next size_of::<T>() bytes of both inputs.
cmp_step_value(r, size) ==
    XorWord(read_unaligned_from_slice(r.memA, r.a, size),
            read_unaligned_from_slice(r.memB, r.b, size))

\* cmp_step::<T>: the slices after the read, and the bytes it touched.
cmp_step_advance(r, size) ==
    [r EXCEPT !.a = SliceFrom(@, size),
              !.b = SliceFrom(@, size),
              !.readsA = Append(@, <<r.a.ptr, size>>),
              !.readsB = Append(@, <<r.b.ptr, size>>),
              !.oob = @ \/ size > r.a.len \/ size > r.b.len
                        \/ OutOfBounds(r.memA, r.a.ptr, size)
                        \/ OutOfBounds(r.memB, r.b.ptr, size)]

\* A faulty chunk step, which assigns the difference of the chunk to the
\* accumulator where it should OR it in.
ChunkStep_Assign(r, size) ==
    LET cmp == optimizer_hide(AsWord(cmp_step_value(r, size), r.W))
    IN  [cmp_step_advance(r, size) EXCEPT
            !.tmp = optimizer_hide(cmp),
            !.steps = @ + 1]

\* let cmp = optimizer_hide(cmp_step::<T>(&mut a, &mut b) as Word);
\* tmp = optimizer_hide(tmp | cmp);
ChunkStep(r, size) ==
    LET cmp == optimizer_hide(AsWord(cmp_step_value(r, size), r.W))
    IN  [cmp_step_advance(r, size) EXCEPT
            !.tmp = optimizer_hide(OrWord(r.tmp, cmp)),
            !.steps = @ + 1]

\* A faulty length test, which rejects only a longer first input: then a
\* shorter first input is compared with a prefix of the second.
ImplLenCheck_OnlyLonger(r) ==
    IF r.a.len > r.b.len
    THEN Return(Branch(r, "impl_len", TRUE), FALSE)
    ELSE [Branch(r, "impl_len", FALSE) EXCEPT
            !.b = [ptr |-> r.b.ptr, len |-> r.a.len],
            !.pc = "impl_empty"]

\* if a.len() != b.len() { return false; }  b = &b[..a.len()];
ImplLenCheck(r) ==
    IF r.a.len # r.b.len
    THEN Return(Branch(r, "impl_len", TRUE), FALSE)
    ELSE [Branch(r, "impl_len", FALSE) EXCEPT
            !.b = [ptr |-> r.b.ptr, len |-> r.a.len],
            !.pc = "impl_empty"]

\* A faulty empty check, which returns true for empty inputs whatever the
\* accumulator holds.
ImplEmptyCheck_True(r) ==
    IF r.a.len = 0
    THEN Return(Branch(r, "impl_empty", TRUE), TRUE)
    ELSE [Branch(r, "impl_empty", FALSE) EXCEPT !.pc = "word_loop"]

\* if a.is_empty() { return tmp == 0; }
ImplEmptyCheck(r) ==
    IF r.a.len = 0
    THEN Return([Branch(r, "impl_empty", TRUE) EXCEPT !.zero_tests = @ + 1],
                IsZero(r.tmp))
    ELSE [Branch(r, "impl_empty", FALSE) EXCEPT !.pc = "word_loop"]

\* A faulty loop, which stops at the first difference: its condition reads
\* the accumulator.
WhileChunk_EarlyExit(r, label, size, next) ==
    IF r.a.len >= size /\ IsZero(r.tmp)
    THEN ChunkStep(Branch(r, label, TRUE), size)
    ELSE [Branch(r, label, FALSE) EXCEPT !.pc = next]

\* A faulty loop, which stops while up to two chunks are left.
WhileChunk_StopsShort(r, label, size, next) ==
    IF r.a.len > 2 * size
    THEN ChunkStep(Branch(r, label, TRUE), size)
    ELSE [Branch(r, label, FALSE) EXCEPT !.pc = next]

\* while a.len() >= size_of::<T>() { ... }: one test of the condition and,
\* when it holds, one pass of the body.
WhileChunk(r, label, size, next) ==
    IF r.a.len >= size
    THEN ChunkStep(Branch(r, label, TRUE), size)
    ELSE [Branch(r, label, FALSE) EXCEPT !.pc = next]

\* A faulty tail block, which is skipped when exactly size_of::<T>() bytes
\* remain.
IfChunk_Strict(r, label, size, next) ==
    IF r.a.len > size
    THEN [ChunkStep(Branch(r, label, TRUE), size) EXCEPT !.pc = next]
    ELSE [Branch(r, label, FALSE) EXCEPT !.pc = next]

\* if a.len() >= size_of::<T>() { ... }
IfChunk(r, label, size, next) ==
    IF r.a.len >= size
    THEN [ChunkStep(Branch(r, label, TRUE), size) EXCEPT !.pc = next]
    ELSE [Branch(r, label, FALSE) EXCEPT !.pc = next]

\* tmp == 0
ImplFinal(r) == Return([r EXCEPT !.zero_tests = @ + 1], IsZero(r.tmp))

\* ------------------------------------------------------- sse2.rs, neon.rs

\* const LANES: usize = size_of::<__m128i>() (sse2.rs), 16 (neon.rs)
LANES == 16

\* The all-zero vector.
ZeroVec == ZeroWord(LANES)

\* A faulty compare, which yields 1 and not 0xFF in the lanes that agree.
cmpeq_epi8_Bool(x, y) == [i \in 1..LANES |-> IF x[i] = y[i] THEN 1 ELSE 0]

\* pcmpeqb: each byte lane is 0xFF where the operands agree, 0x00 elsewhere.
cmpeq_epi8(x, y) == [i \in 1..LANES |-> IF x[i] = y[i] THEN 255 ELSE 0]

\* A faulty accumulation, which ORs the masks as the generic engine ORs its
\* differences: a lane stays set when either operand has it set.
and_si128_Or(x, y) == OrWord(x, y)

\* pand
and_si128(x, y) == AndWord(x, y)

RECURSIVE MoveMaskFrom(_, _)
\* Bits i-1 .. 15 of pmovmskb: bit i-1 is the top bit of byte lane i.
MoveMaskFrom(x, i) ==
    IF i > LANES THEN 0 ELSE (x[i] \div 128) + 2 * MoveMaskFrom(x, i + 1)

\* pmovmskb
movemask_epi8(x) == MoveMaskFrom(x, 1)

\* _mm_loadu_si128
mm_loadu_si128(mem, ptr) == ReadBytes(mem, ptr, 16)

\* _mm_loadu_si64, _mm_loadu_si32, _mm_loadu_si16: the low lanes from memory,
\* the rest of the register zero.
mm_loadu_si64(mem, ptr) == AsWord(ReadBytes(mem, ptr, 8), LANES)
mm_loadu_si32(mem, ptr) == AsWord(ReadBytes(mem, ptr, 4), LANES)
mm_loadu_si16(mem, ptr) == AsWord(ReadBytes(mem, ptr, 2), LANES)

\* _mm_unpacklo_epi64, _epi32, _epi16: the lanes of the low halves of x and
\* y, interleaved.
mm_unpacklo_epi64(x, y) ==
    [i \in 1..LANES |-> IF i <= 8 THEN x[i] ELSE y[i - 8]]
mm_unpacklo_epi32(x, y) ==
    [i \in 1..LANES |->
        LET lane == (i - 1) \div 4
            k == (i - 1) % 4
        IN  IF lane % 2 = 0 THEN x[4 * (lane \div 2) + k + 1]
            ELSE y[4 * (lane \div 2) + k + 1]]
mm_unpacklo_epi16(x, y) ==
    [i \in 1..LANES |->
        LET lane == (i - 1) \div 2
            k == (i - 1) % 2
        IN  IF lane % 2 = 0 THEN x[2 * (lane \div 2) + k + 1]
            ELSE y[2 * (lane \div 2) + k + 1]]

\* A faulty partial load, which for more than 8 bytes loads the first 8 bytes
\* twice and never the last ones.
loadu_partial_NoOffset(mem, ptr, n) ==
    IF n > 8 THEN mm_unpacklo_epi64(mm_loadu_si64(mem, ptr), mm_loadu_si64(mem, ptr))
    ELSE IF n = 8 THEN mm_loadu_si64(mem, ptr)
    ELSE IF n > 4 THEN mm_unpacklo_epi32(mm_loadu_si32(mem, ptr),
                                         mm_loadu_si32(mem, ptr + (n - 4)))
    ELSE IF n = 4 THEN mm_loadu_si32(mem, ptr)
    ELSE IF n > 2 THEN mm_unpacklo_epi16(mm_loadu_si16(mem, ptr),
                                         mm_loadu_si16(mem, ptr + (n - 2)))
    ELSE IF n = 2 THEN mm_loadu_si16(mem, ptr)
    ELSE IF n > 0 THEN AsWord(ReadBytes(mem, ptr, 1), LANES)
    ELSE ZeroVec

\* loadu_partial (sse2.rs): the register loaded from the n bytes at ptr.
loadu_partial(mem, ptr, n) ==
    IF n > 8 THEN mm_unpacklo_epi64(mm_loadu_si64(mem, ptr),
                                    mm_loadu_si64(mem, ptr + (n - 8)))
    ELSE IF n = 8 THEN mm_loadu_si64(mem, ptr)
    ELSE IF n > 4 THEN mm_unpacklo_epi32(mm_loadu_si32(mem, ptr),
                                         mm_loadu_si32(mem, ptr + (n - 4)))
    ELSE IF n = 4 THEN mm_loadu_si32(mem, ptr)
    ELSE IF n > 2 THEN mm_unpacklo_epi16(mm_loadu_si16(mem, ptr),
                                         mm_loadu_si16(mem, ptr + (n - 2)))
    ELSE IF n = 2 THEN mm_loadu_si16(mem, ptr)
    ELSE IF n > 0 THEN AsWord(ReadBytes(mem, ptr, 1), LANES)
    ELSE ZeroVec

\* loadu_partial: the (offset, size) memory reads it makes for n bytes at ptr.
loadu_partial_reads(ptr, n) ==
    IF n > 8 THEN <<(<<ptr, 8>>), (<<ptr + (n - 8), 8>>)>>
    ELSE IF n = 8 THEN <<(<<ptr, 8>>)>>
    ELSE IF n > 4 THEN <<(<<ptr, 4>>), (<<ptr + (n - 4), 4>>)>>
    ELSE IF n = 4 THEN <<(<<ptr, 4>>)>>
    ELSE IF n > 2 THEN <<(<<ptr, 2>>), (<<ptr + (n - 2), 2>>)>>
    ELSE IF n = 2 THEN <<(<<ptr, 2>>)>>
    ELSE IF n > 0 THEN <<(<<ptr, 1>>)>>
    ELSE <<>>

\* cmeq (neon.rs)
vceqq_u8_hide(x, y) == [i \in 1..LANES |-> IF x[i] = y[i] THEN 255 ELSE 0]

\* and (neon.rs)
vandq_u8_hide(x, y) == AndWord(x, y)

\* A faulty narrowing, which shifts by 8 and keeps the high byte of each
\* 16-bit lane alone.
vshrn_n_u16_4_hide_Shift8(x) == [j \in 1..8 |-> x[2 * j]]

\* shrn #4 of the eight 16-bit lanes of x: lane j is x[2j-1] + 256 * x[2j];
\* each result byte is bits 4..11 of its lane.
vshrn_n_u16_4_hide(x) ==
    [j \in 1..8 |-> ((x[2 * j - 1] + 256 * x[2 * j]) \div 16) % 256]

\* vcombine_u8(lo, hi)
vcombine_u8(lo, hi) == lo \o hi

\* vcreate_u8(v) of a value v at most 8 bytes wide, zero-extended to u64.
vcreate_u8(v) == AsWord(v, 8)

\* vld1q_u8_partial::load_unaligned::<T>
load_unaligned(mem, ptr, size) ==
    vcombine_u8(vcreate_u8(ReadBytes(mem, ptr, size)), vcreate_u8(<<>>))

\* A faulty pair load, which shifts b by its own size and not by the size
\* of a: c = a | (b << (8 * sizeB)).
load_unaligned_pair_ShiftB(mem, ptr, sizeA, sizeB) ==
    LET va == AsWord(ReadBytes(mem, ptr, sizeA), 8)
        vb == AsWord(ReadBytes(mem, ptr + sizeA, sizeB), 8)
        shifted == [i \in 1..8 |-> IF i > sizeB THEN vb[i - sizeB] ELSE 0]
    IN  vcombine_u8(vcreate_u8(OrWord(va, shifted)), vcreate_u8(<<>>))

\* vld1q_u8_partial::load_unaligned_pair::<A, B>: c = a | (b << (8 * sizeA))
load_unaligned_pair(mem, ptr, sizeA, sizeB) ==
    LET va == AsWord(ReadBytes(mem, ptr, sizeA), 8)
        vb == AsWord(ReadBytes(mem, ptr + sizeA, sizeB), 8)
        shifted == [i \in 1..8 |-> IF i > sizeA THEN vb[i - sizeA] ELSE 0]
    IN  vcombine_u8(vcreate_u8(OrWord(va, shifted)), vcreate_u8(<<>>))

\* A faulty partial load, which for 6 bytes loads 5.
vld1q_u8_partial_Short6(mem, ptr, n) ==
    IF n >= 9 THEN vcombine_u8(ReadBytes(mem, ptr, 8), ReadBytes(mem, ptr + (n - 8), 8))
    ELSE IF n = 8 THEN vcombine_u8(ReadBytes(mem, ptr, 8), vcreate_u8(<<>>))
    ELSE IF n = 7 THEN vcombine_u8(vcreate_u8(ReadBytes(mem, ptr, 4)),
                                   vcreate_u8(ReadBytes(mem, ptr + (n - 4), 4)))
    ELSE IF n = 6 THEN load_unaligned_pair(mem, ptr, 4, 1)
    ELSE IF n = 5 THEN load_unaligned_pair(mem, ptr, 4, 1)
    ELSE IF n = 4 THEN load_unaligned(mem, ptr, 4)
    ELSE IF n = 3 THEN load_unaligned_pair(mem, ptr, 2, 1)
    ELSE IF n = 2 THEN load_unaligned(mem, ptr, 2)
    ELSE IF n = 1 THEN load_unaligned(mem, ptr, 1)
    ELSE vcombine_u8(vcreate_u8(<<>>), vcreate_u8(<<>>))

\* vld1q_u8_partial (neon.rs): the register loaded from the n bytes at ptr.
vld1q_u8_partial(mem, ptr, n) ==
    IF n >= 9 THEN vcombine_u8(ReadBytes(mem, ptr, 8), ReadBytes(mem, ptr + (n - 8), 8))
    ELSE IF n = 8 THEN vcombine_u8(ReadBytes(mem, ptr, 8), vcreate_u8(<<>>))
    ELSE IF n = 7 THEN vcombine_u8(vcreate_u8(ReadBytes(mem, ptr, 4)),
                                   vcreate_u8(ReadBytes(mem, ptr + (n - 4), 4)))
    ELSE IF n = 6 THEN load_unaligned_pair(mem, ptr, 4, 2)
    ELSE IF n = 5 THEN load_unaligned_pair(mem, ptr, 4, 1)
    ELSE IF n = 4 THEN load_unaligned(mem, ptr, 4)
    ELSE IF n = 3 THEN load_unaligned_pair(mem, ptr, 2, 1)
    ELSE IF n = 2 THEN load_unaligned(mem, ptr, 2)
    ELSE IF n = 1 THEN load_unaligned(mem, ptr, 1)
    ELSE vcombine_u8(vcreate_u8(<<>>), vcreate_u8(<<>>))

\* vld1q_u8_partial: the (offset, size) memory reads it makes.
vld1q_u8_partial_reads(ptr, n) ==
    IF n >= 9 THEN <<(<<ptr, 8>>), (<<ptr + (n - 8), 8>>)>>
    ELSE IF n = 8 THEN <<(<<ptr, 8>>)>>
    ELSE IF n = 7 THEN <<(<<ptr, 4>>), (<<ptr + (n - 4), 4>>)>>
    ELSE IF n = 6 THEN <<(<<ptr, 4>>), (<<ptr + 4, 2>>)>>
    ELSE IF n = 5 THEN <<(<<ptr, 4>>), (<<ptr + 4, 1>>)>>
    ELSE IF n = 4 THEN <<(<<ptr, 4>>)>>
    ELSE IF n = 3 THEN <<(<<ptr, 2>>), (<<ptr + 2, 1>>)>>
    ELSE IF n = 2 THEN <<(<<ptr, 2>>)>>
    ELSE IF n = 1 THEN <<(<<ptr, 1>>)>>
    ELSE <<>>

\* The primitives of the backend the run was built with.
VecCmpEq(r, x, y) == IF r.backend = "sse2" THEN cmpeq_epi8(x, y) ELSE vceqq_u8_hide(x, y)
VecAnd(r, x, y) == IF r.backend = "sse2" THEN and_si128(x, y) ELSE vandq_u8_hide(x, y)
VecLoadPartial(r, mem, ptr, n) ==
    IF r.backend = "sse2" THEN loadu_partial(mem, ptr, n) ELSE vld1q_u8_partial(mem, ptr, n)
VecPartialReads(r, ptr, n) ==
    IF r.backend = "sse2" THEN loadu_partial_reads(ptr, n) ELSE vld1q_u8_partial_reads(ptr, n)

\* Whether one of the reads leaves the buffer.
AnyOutOfBounds(mem, reads) ==
    \E k \in 1..Len(reads) : OutOfBounds(mem, reads[k][1], reads[k][2])

\* The run after both inputs were read at the given (offset, size) places.
Loaded(r, readsA, readsB) ==
    [r EXCEPT !.readsA = @ \o readsA,
              !.readsB = @ \o readsB,
              !.oob = @ \/ AnyOutOfBounds(r.memA, readsA) \/ AnyOutOfBounds(r.memB, readsB)]

\* a = a.add(k); b = b.add(k); n -= k;
Advance(r, k) ==
    [r EXCEPT !.a = [ptr |-> @.ptr + k, len |-> @.len],
              !.b = [ptr |-> @.ptr + k, len |-> @.len],
              !.n = @ - k,
              !.steps = @ + 1]

\* The masks of the two full vectors at a and a + LANES.
PairMasks(r) ==
    <<VecCmpEq(r, mm_loadu_si128(r.memA, r.a.ptr), mm_loadu_si128(r.memB, r.b.ptr)),
      VecCmpEq(r, mm_loadu_si128(r.memA, r.a.ptr + LANES),
                  mm_loadu_si128(r.memB, r.b.ptr + LANES))>>

\* The mask of the full vector at a.
LaneMask(r) ==
    VecCmpEq(r, mm_loadu_si128(r.memA, r.a.ptr), mm_loadu_si128(r.memB, r.b.ptr))

\* The mask of the partial vectors of the last n bytes.
PartialMask(r) ==
    VecCmpEq(r, VecLoadPartial(r, r.memA, r.a.ptr, r.n),
                VecLoadPartial(r, r.memB, r.b.ptr, r.n))

\* The run after the partial loads of the last n bytes.
PartialLoaded(r) ==
    [Loaded(r, VecPartialReads(r, r.a.ptr, r.n), VecPartialReads(r, r.b.ptr, r.n))
        EXCEPT !.steps = @ + 1]

\* if n >= LANES * 2 { first two vectors: mask0, mask1 }
SimdTwoFirst(r) ==
    LET m == PairMasks(r)
        q == Branch(r, "n>=2L", TRUE)
    IN  [Advance(Loaded(q, <<(<<r.a.ptr, 2 * LANES>>)>>, <<(<<r.b.ptr, 2 * LANES>>)>>),
                 2 * LANES)
            EXCEPT !.mask0 = m[1], !.mask1 = m[2], !.pc = "simd_loop2"]

\* while n >= LANES * 2 { two more vectors AND-ed into mask0, mask1 }
SimdTwoLoop(r) ==
    IF r.n >= 2 * LANES
    THEN LET m == PairMasks(r)
             q == Branch(r, "while n>=2L", TRUE)
         IN  [Advance(Loaded(q, <<(<<r.a.ptr, 2 * LANES>>)>>, <<(<<r.b.ptr, 2 * LANES>>)>>),
                      2 * LANES)
                 EXCEPT !.mask0 = VecAnd(r, r.mask0, m[1]),
                        !.mask1 = VecAnd(r, r.mask1, m[2])]
    ELSE [Branch(r, "while n>=2L", FALSE) EXCEPT !.pc = "simd_lane"]

\* if n >= LANES { one more vector AND-ed into mask0 }
SimdTwoLane(r) ==
    IF r.n >= LANES
    THEN LET q == Branch(r, "if n>=L", TRUE)
         IN  [Advance(Loaded(q, <<(<<r.a.ptr, LANES>>)>>, <<(<<r.b.ptr, LANES>>)>>), LANES)
                 EXCEPT !.mask0 = VecAnd(r, r.mask0, LaneMask(r)),
                        !.pc = "simd_partial"]
    ELSE [Branch(r, "if n>=L", FALSE) EXCEPT !.pc = "simd_partial"]

\* A faulty partial step, which assigns the mask of the partial vector to
\* mask1 where it should AND it in.
SimdTwoPartial_Assign(r) ==
    LET q == IF r.n > 0
             THEN [PartialLoaded(Branch(r, "if n>0", TRUE))
                      EXCEPT !.mask1 = PartialMask(r)]
             ELSE Branch(r, "if n>0", FALSE)
    IN  [q EXCEPT !.mask = VecAnd(r, q.mask0, q.mask1), !.pc = "simd_final"]

\* if n > 0 { the partial vector AND-ed into mask1 }  mask = mask0 & mask1;
SimdTwoPartial(r) ==
    LET q == IF r.n > 0
             THEN [PartialLoaded(Branch(r, "if n>0", TRUE))
                      EXCEPT !.mask1 = VecAnd(r, r.mask1, PartialMask(r))]
             ELSE Branch(r, "if n>0", FALSE)
    IN  [q EXCEPT !.mask = VecAnd(r, q.mask0, q.mask1), !.pc = "simd_final"]

\* else if n >= LANES { one vector: mask }
SimdOneFirst(r) ==
    LET q == Branch(Branch(r, "n>=2L", FALSE), "n>=L", TRUE)
    IN  [Advance(Loaded(q, <<(<<r.a.ptr, LANES>>)>>, <<(<<r.b.ptr, LANES>>)>>), LANES)
            EXCEPT !.mask = LaneMask(r), !.pc = "simd1_partial"]

\* if n > 0 { the partial vector AND-ed into mask }
SimdOnePartial(r) ==
    IF r.n > 0
    THEN [PartialLoaded(Branch(r, "if n>0", TRUE))
            EXCEPT !.mask = VecAnd(r, r.mask, PartialMask(r)), !.pc = "simd_final"]
    ELSE [Branch(r, "if n>0", FALSE) EXCEPT !.pc = "simd_final"]

\* else if n > 0 { the partial vector alone: mask }
SimdPartialOnly(r) ==
    LET q == Branch(Branch(Branch(r, "n>=2L", FALSE), "n>=L", FALSE), "n>0", TRUE)
    IN  [PartialLoaded(q) EXCEPT !.mask = PartialMask(r), !.pc = "simd_final"]

\* else { return true; }
SimdEmpty(r) ==
    Return(Branch(Branch(Branch(r, "n>=2L", FALSE), "n>=L", FALSE), "n>0", FALSE), TRUE)

\* movemask_epi8(mask) == 0xFFFF
Sse2Final(r) ==
    Return([r EXCEPT !.zero_tests = @ + 1], movemask_epi8(r.mask) = 65535)

\* vget_lane_u64(vshrn_n_u16_4_hide(mask), 0) == !0
NeonFinal(r) ==
    Return([r EXCEPT !.zero_tests = @ + 1],
           \A j \in 1..8 : vshrn_n_u16_4_hide(r.mask)[j] = 255)

\* A faulty length test, which lets a shorter first input through.
SimdLenCheck_AtMost(r) ==
    IF r.a.len <= r.b.len
    THEN [Branch(r, "len_eq", TRUE) EXCEPT !.n = r.a.len, !.pc = "simd_dispatch"]
    ELSE Return(Branch(r, "len_eq", FALSE), FALSE)

\* a.len() == b.len() && constant_time_eq_sse2(a.as_ptr(), b.as_ptr(), a.len())
SimdLenCheck(r) ==
    IF r.a.len = r.b.len
    THEN [Branch(r, "len_eq", TRUE) EXCEPT !.n = r.a.len, !.pc = "simd_dispatch"]
    ELSE Return(Branch(r, "len_eq", FALSE), FALSE)

\* ----------------------------------------------------------------- dit.rs

\* enum Features: Unknown = 0 (the cache only), Neither = 1, DitOnly = 2,
\* DitSb = 3.
Unknown == 0
Neither == 1
DitOnly == 2
DitSb == 3

\* The DIT register with PSTATE.DIT set: 1 << 24.
DitEnabled == 16777216

\* The platforms the crate runs on: the features the processor implements
\* (hw), those the operating system reports at run time (os), those enabled
\* at build time (build), and whether the "std" feature is on.  A feature is
\* reported or enabled at build time only where it is implemented.  What the
\* operating system reports is looked at only with "std" and only for a
\* feature not enabled at build time, so os names no other feature.
Platforms ==
    {p \in [hw : SUBSET {"dit", "sb"}, os : SUBSET {"dit", "sb"},
            build : SUBSET {"dit", "sb"}, std : BOOLEAN] :
        /\ p.os \subseteq p.hw /\ p.build \subseteq p.hw
        /\ p.os \cap p.build = {}
        /\ ~p.std => p.os = {}}

\* cfg!(target_feature = f)
TargetFeature(p, f) == f \in p.build

\* #[cfg(all(target_feature = "dit", target_feature = "sb"))]: the module
\* detect and the cache FEATURES are compiled out.
DetectCompiledOut(p) == TargetFeature(p, "dit") /\ TargetFeature(p, "sb")

\* is_aarch64_feature_detected!(f): enabled at build time or reported at run time.
is_aarch64_feature_detected(p, f) == TargetFeature(p, f) \/ f \in p.os

\* A faulty mapping, which leaves out the features enabled at build time.
FeaturesOf_NoBuild(p, dit, sb) ==
    IF dit /\ sb THEN DitSb
    ELSE IF dit /\ ~sb THEN DitOnly
    ELSE Neither

\* detect::set_aarch64_dit_sb_features: the Features value of (dit, sb).
FeaturesOf(p, dit, sb) ==
    LET d == dit \/ TargetFeature(p, "dit")
        sbit == sb \/ TargetFeature(p, "sb")
    IN  IF d /\ sbit THEN DitSb
        ELSE IF d /\ ~sbit THEN DitOnly
        ELSE Neither

\* A faulty cast, which numbers the discriminants from 0.
AsU8_FromZero(features) == features - 1

\* features as u8: the discriminant of the Features value.
AsU8(features) == features

\* transmute::<u8, Features>(features)
transmute(features) == features

\* A faulty compare_exchange: a plain store.
compare_exchange_Store(current, expected, new) == new

\* A faulty compare_exchange, which also replaces a known value by a
\* greater one.
compare_exchange_Upgrade(current, expected, new) ==
    IF current = expected \/ new > current THEN new ELSE current

\* FEATURES.compare_exchange(0, new, Relaxed, Relaxed): the cache afterwards.
compare_exchange(current, expected, new) == IF current = expected THEN new ELSE current

\* detect_aarch64_dit_sb_features: the Features value the detection computes,
\* from the run-time query with "std", from the build-time features without.
Detected(p) ==
    IF p.std
    THEN FeaturesOf(p, is_aarch64_feature_detected(p, "dit"),
                       is_aarch64_feature_detected(p, "sb"))
    ELSE FeaturesOf(p, TargetFeature(p, "dit"), TargetFeature(p, "sb"))

\* mrs x, dit
rsr64_dit(reg) == reg

\* A faulty register write, which takes DIT from bit 0 of the value (the
\* immediate form msr dit, #1) and not from bit 24.
wsr64_dit_Bit0(value) == (value % 2) * DitEnabled

\* msr dit, x: PSTATE.DIT becomes bit 24 of the value.
wsr64_dit(value) == ((value \div DitEnabled) % 2) * DitEnabled

\* msr dit, #1
enable_dit == DitEnabled

\* A with_dit call just entered by a thread whose DIT register holds reg.
NewFrame(reg) ==
    [pc |-> "get", features |-> Unknown, detected |-> FALSE,
     guarded |-> FALSE, guard |-> 0, entry |-> reg, fret |-> FALSE]

\* A thread that has called nothing yet.
NewThread(reg, calls, overrides) ==
    [dit |-> reg, stack |-> <<>>, unwinding |-> FALSE,
     calls |-> calls, overrides |-> overrides, sets |-> 0, events |-> <<>>,
     last |-> [depth |-> 0, entry |-> 0, exit |-> 0, guarded |-> FALSE, guard |-> 0,
               features |-> Unknown, detected |-> FALSE, unwound |-> FALSE,
               fret |-> FALSE, ret |-> FALSE]]

\* The frame of the innermost with_dit call of thread record th.
Top(th) == th.stack[Len(th.stack)]

\* The thread with the innermost frame replaced.
WithTop(th, frame) == [th EXCEPT !.stack[Len(th.stack)] = frame]

\* One more event of the thread, at its current nesting depth.
Event(th, name) == [th EXCEPT !.events = Append(@, <<name, Len(th.stack)>>)]

\* A faulty load, which never looks at the cache and always detects.
GetLoaded_AlwaysDetect(p, cache, th) ==
    IF DetectCompiledOut(p)
    THEN WithTop(th, [Top(th) EXCEPT !.features = DitSb, !.pc = "match"])
    ELSE WithTop(th, [Top(th) EXCEPT !.pc = "detect"])

\* get_aarch64_dit_sb_features, the load: a known value is used as it is,
\* an unknown one sends the thread to the detection.
GetLoaded(p, cache, th) ==
    IF DetectCompiledOut(p)
    THEN WithTop(th, [Top(th) EXCEPT !.features = DitSb, !.pc = "match"])
    ELSE IF cache > 0
    THEN WithTop(th, [Top(th) EXCEPT !.features = transmute(cache), !.pc = "match"])
    ELSE WithTop(th, [Top(th) EXCEPT !.pc = "detect"])

\* A faulty match, which wraps the computation for DitSb alone and runs it
\* bare for DitOnly.
Matched_SbOnly(th) ==
    LET f == Top(th)
    IN  IF f.features = DitSb
        THEN WithTop(th, [f EXCEPT !.pc = "save"])
        ELSE Event(WithTop(th, [f EXCEPT !.pc = "body"]), "body")

\* A faulty match, which wraps the computation whatever the Features value.
Matched_AlwaysWrap(th) == WithTop(th, [Top(th) EXCEPT !.pc = "save"])

\* match get_aarch64_dit_sb_features() { DitSb => .., DitOnly => .., Neither => f() }
Matched(th) ==
    LET f == Top(th)
    IN  IF f.features = DitSb \/ f.features = DitOnly
        THEN WithTop(th, [f EXCEPT !.pc = "save"])
        ELSE Event(WithTop(th, [f EXCEPT !.pc = "body"]), "body")

\* let _guard = Guard { dit: rsr64_dit() };
GuardTaken(th) ==
    Event(WithTop(th, [Top(th) EXCEPT !.guarded = TRUE,
                                      !.guard = rsr64_dit(th.dit),
                                      !.pc = "enable"]), "save")

\* enable_dit()
DitSet(th) ==
    Event([WithTop(th, [Top(th) EXCEPT !.pc = "barrier"]) EXCEPT !.dit = enable_dit],
          "enable")

\* A faulty barrier, which executes `sb` in with_feat_dit as well.
BarrierDone_AlwaysSb(th) ==
    Event(Event(WithTop(th, [Top(th) EXCEPT !.pc = "body"]), "sb"), "body")

\* speculation_barrier() in with_feat_dit_sb, synchronization_barrier() in
\* with_feat_dit; then f() starts.
BarrierDone(th) ==
    Event(Event(WithTop(th, [Top(th) EXCEPT !.pc = "body"]),
                IF Top(th).features = DitSb THEN "sb" ELSE "dsb_isb"),
          "body")

\* f() ends, by a return of value v or by a panic: the frame is left through
\* the drop of its guard when it has one.
BodyEnded(th, v, panicked) ==
    [WithTop(th, [Top(th) EXCEPT !.fret = v,
                                 !.pc = IF @ = "body" THEN "leave" ELSE @])
        EXCEPT !.unwinding = @ \/ panicked]

\* A faulty Drop, which clears DIT where it should write the saved value back.
GuardDropped_Clear(th) == [th EXCEPT !.dit = 0]

\* impl Drop for Guard: wsr64_dit(self.dit)
GuardDropped(th) == [th EXCEPT !.dit = wsr64_dit(Top(th).guard)]

\* The thread after its innermost with_dit call is left: the frame is
\* popped, and a panic goes on unwinding the caller.
Left(th) ==
    LET f == Top(th)
        depth == Len(th.stack)
        rest == SubSeq(th.stack, 1, depth - 1)
        outer == IF rest # <<>> /\ th.unwinding
                 THEN [rest EXCEPT ![depth - 1].pc = "leave"]
                 ELSE rest
    IN  [Event(th, IF th.unwinding THEN "unwind" ELSE "return") EXCEPT
            !.stack = outer,
            !.last = [depth |-> depth, entry |-> f.entry, exit |-> th.dit,
                      guarded |-> f.guarded, guard |-> f.guard,
                      features |-> f.features, detected |-> f.detected,
                      unwound |-> th.unwinding,
                      fret |-> f.fret, ret |-> f.fret]]

\* A faulty end of the call, which restores the register on the return path
\* alone: an unwinding call leaves without the drop of its guard.
FrameLeft_ReturnOnly(th) ==
    IF Top(th).guarded /\ ~th.unwinding
    THEN Left(Event(GuardDropped(th), "restore"))
    ELSE Left(th)

\* The end of with_feat_dit_sb, with_feat_dit or the Neither arm: the guard,
\* if the frame has one, is dropped, and the call is left.
FrameLeft(th) ==
    IF Top(th).guarded
    THEN Left(Event(GuardDropped(th), "restore"))
    ELSE Left(th)


\* ---------------------------------------------------------------- lib.rs

\* A call that has not run yet: both buffers whole, nothing read.
NewRun(backend, W, api, memA, memB, seed) ==
    [backend |-> backend, W |-> W, api |-> api,
     memA |-> memA, memB |-> memB,
     a |-> [ptr |-> 0, len |-> Len(memA)],
     b |-> [ptr |-> 0, len |-> Len(memB)],
     n |-> 0, seed |-> seed, tmp |-> seed,
     mask0 |-> <<>>, mask1 |-> <<>>, mask |-> <<>>,
     pc |-> "call", ret |-> FALSE,
     calls |-> <<>>, trace |-> <<>>, steps |-> 0, zero_tests |-> 0,
     readsA |-> <<>>, readsB |-> <<>>, oob |-> FALSE]

\* One more function entered.
Called(r, name) == [r EXCEPT !.calls = Append(@, name)]

\* with_dit(f) where the DIT wrapper is compiled out (lib.rs 60-67), and what
\* dit::with_dit returns on every path (dit.rs 237, 273, 294): f().
with_dit(f) == f

\* constant_time_eq_impl(a, b, tmp), entered with the accumulator r.tmp of
\* its caller.
constant_time_eq_impl(r) ==
    [Called(r, "constant_time_eq_impl") EXCEPT !.seed = r.tmp, !.pc = "impl_len"]

\* generic::constant_time_eq: with_dit(|| constant_time_eq_impl(a, b, 0))
generic_constant_time_eq(r) ==
    with_dit(constant_time_eq_impl([Called(r, "generic::constant_time_eq")
                                       EXCEPT !.tmp = ZeroWord(r.W)]))

\* generic::constant_time_eq_n: with_dit(|| constant_time_eq_impl(&a[..], &b[..], 0))
generic_constant_time_eq_n(r) ==
    with_dit(constant_time_eq_impl([Called(r, "generic::constant_time_eq_n")
                                       EXCEPT !.tmp = ZeroWord(r.W)]))

\* sse2::constant_time_eq, neon::constant_time_eq: the length test comes first.
simd_constant_time_eq(r) ==
    [Called(r, "simd::constant_time_eq") EXCEPT !.pc = "simd_len"]

\* A faulty array entry point, which compares the whole vectors of the arrays
\* and forgets the remainder.
simd_constant_time_eq_n_WholeVectors(r) ==
    [Called(r, "simd::constant_time_eq_n")
        EXCEPT !.n = Len(r.memA) - (Len(r.memA) % LANES), !.pc = "simd_dispatch"]

\* sse2::constant_time_eq_n, neon::constant_time_eq_n: the engine on N bytes.
simd_constant_time_eq_n(r) ==
    [Called(r, "simd::constant_time_eq_n") EXCEPT !.n = Len(r.memA), !.pc = "simd_dispatch"]

\* constant_time_eq: simd::constant_time_eq(a, b)
constant_time_eq(r) ==
    LET q == Called(r, "constant_time_eq")
    IN  IF r.backend = "generic" THEN generic_constant_time_eq(q)
        ELSE simd_constant_time_eq(q)

\* constant_time_eq_n: simd::constant_time_eq_n(a, b)
constant_time_eq_n(r) ==
    LET q == Called(r, "constant_time_eq_n")
    IN  IF r.backend = "generic" THEN generic_constant_time_eq_n(q)
        ELSE simd_constant_time_eq_n(q)

\* constant_time_eq_16, _32, _64: constant_time_eq_n(a, b)
constant_time_eq_16(r) == constant_time_eq_n(Called(r, "constant_time_eq_16"))
constant_time_eq_32(r) == constant_time_eq_n(Called(r, "constant_time_eq_32"))
constant_time_eq_64(r) == constant_time_eq_n(Called(r, "constant_time_eq_64"))


\* The call api(memA, memB) on the given backend, up to the first branch of
\* its engine.
Start(backend, W, api, memA, memB, seed) ==
    LET r == NewRun(backend, W, api, memA, memB, seed)
    IN  CASE api = "eq" -> constant_time_eq(r)
          [] api = "eq_n" -> constant_time_eq_n(r)
          [] api = "eq_16" -> constant_time_eq_16(r)
          [] api = "eq_32" -> constant_time_eq_32(r)
          [] api = "eq_64" -> constant_time_eq_64(r)
          [] api = "impl" -> constant_time_eq_impl(r)

\* The step the run takes next: its engine's block at r.pc.
Step(r) ==
    CASE r.pc = "impl_len" -> ImplLenCheck(r)
      [] r.pc = "impl_empty" -> ImplEmptyCheck(r)
      [] r.pc = "word_loop" -> WhileChunk(r, "word_loop", r.W, "u128_loop")
      [] r.pc = "u128_loop" -> WhileChunk(r, "u128_loop", SizeU128, "u64_if")
      [] r.pc = "u64_if" -> IfChunk(r, "u64_if", SizeU64, "u32_if")
      [] r.pc = "u32_if" -> IfChunk(r, "u32_if", SizeU32, "u16_if")
      [] r.pc = "u16_if" -> IfChunk(r, "u16_if", SizeU16, "u8_if")
      [] r.pc = "u8_if" -> IfChunk(r, "u8_if", SizeU8, "final")
      [] r.pc = "final" -> ImplFinal(r)
      [] r.pc = "simd_len" -> SimdLenCheck(r)
      [] r.pc = "simd_dispatch" ->
            IF r.n >= 2 * LANES THEN SimdTwoFirst(r)
            ELSE IF r.n >= LANES THEN SimdOneFirst(r)
            ELSE IF r.n > 0 THEN SimdPartialOnly(r)
            ELSE SimdEmpty(r)
      [] r.pc = "simd_loop2" -> SimdTwoLoop(r)
      [] r.pc = "simd_lane" -> SimdTwoLane(r)
      [] r.pc = "simd_partial" -> SimdTwoPartial(r)
      [] r.pc = "simd1_partial" -> SimdOnePartial(r)
      [] r.pc = "simd_final" -> IF r.backend = "sse2" THEN Sse2Final(r) ELSE NeonFinal(r)
      [] OTHER -> r

RECURSIVE Finish(_)
\* The run at its return.
Finish(r) == IF r.pc = "done" THEN r ELSE Finish(Step(r))

\* ---------------------------------------------------- tests/exhaustive.rs

\* buf.fill(0), buf.fill(!0), buf.fill_with(xorshift32): the first n bytes
\* of a filled buffer.  The pseudorandom fill stands for the test's
\* xorshift32 stream.
Filled(fill, n) ==
    [i \in 1..n |->
        CASE fill = "zeros" -> 0
          [] fill = "ones" -> 255
          [] fill = "random" -> (i * 73 + 41) % 256]

\* buf[i] ^= m
FlipBit(buf, i, m) == [buf EXCEPT ![i] = XorBits(@, m, 8)]

\* ------------------------------------------------------------------ state

VARIABLES
    run,       \* the call in progress: its arguments, registers, position, log
    phase,     \* the test driver: "initial", "flipped" or "restored" buffers
    flip,      \* the bit the driver flipped, <<side, index, mask>>, or <<>>
    platform,  \* the processor, operating system and build the crate runs on
    FEATURES,  \* static FEATURES: AtomicU8, the cached Features value
    threads,   \* per thread: its DIT register, its with_dit calls, its log
    first      \* the entry point of dit.rs that was called first, of all threads

ditvars == <<platform, FEATURES, threads, first>>
vars == <<run, phase, flip, platform, FEATURES, threads, first>>

Threads == 1..NThreads

\* No entry point of dit.rs was called yet.
NoEntry == [kind |-> "none", dit |-> FALSE, sb |-> FALSE]

\* The lengths the backend is run on.
Lens(backend, W) ==
    IF backend = "generic"
    THEN {n \in 0..MaxGenericLen : n <= MaxWords * W + W - 1}
    ELSE 0..MaxLen

\* size_of::<Word>() where the backend is built.  The generic engine: u64,
\* u32, u16, u8, and usize on a target whose pointers are none of 64, 32 or
\* 16 bits wide.  The vector engines never use Word.
WordsOf(backend) ==
    IF backend = "generic"
    THEN {SizeU8, SizeU16, SizeU32, SizeU64, SizeU128}
    ELSE {SizeU64}

\* The entry points a call of n-byte inputs can go through.
Apis(backend, n) ==
    {"eq", "eq_n"}
    \cup (IF n = 16 THEN {"eq_16"} ELSE {})
    \cup (IF n = 32 THEN {"eq_32"} ELSE {})
    \cup (IF n = 64 THEN {"eq_64"} ELSE {})
    \cup (IF backend = "generic" THEN {"impl"} ELSE {})

\* The initial accumulators constant_time_eq_impl is called with: 0, the
\* lowest bit, the highest bit.
Seeds(api, W) ==
    IF api = "impl"
    THEN {ZeroWord(W),
          [i \in 1..W |-> IF i = 1 THEN 1 ELSE 0],
          [i \in 1..W |-> IF i = W THEN 128 ELSE 0]}
    ELSE {ZeroWord(W)}

\* The two buffers of a first call, la and lb bytes long: the same fill (b
\* is a copy of a, as in the test), two fills (most bytes differ), and two
\* buffers that differ in the top bit of the last byte alone.
InputPairs(la, lb) ==
    {<<Filled(f, la), Filled(f, lb)>> : f \in {"zeros", "ones", "random"}}
    \cup {<<Filled("random", la), Filled("ones", lb)>>}
    \cup (IF la = lb /\ la > 0
          THEN {<<Filled("random", la), FlipBit(Filled("random", lb), lb, 128)>>}
          ELSE {})

Init ==
    /\ \E backend \in {"generic", "sse2", "neon"} :
       \E W \in WordsOf(backend) :
       \E la \in Lens(backend, W) :
       \E api \in Apis(backend, la) :
       \E lb \in {l \in Lens(backend, W) :
                    /\ l - la <= MaxLenDiff /\ la - l <= MaxLenDiff
                    /\ (l # la => api \in {"eq", "impl"})} :
       \E in \in InputPairs(la, lb) :
       \E seed \in Seeds(api, W) :
          run = Start(backend, W, api, in[1], in[2], seed)
    /\ phase = "initial"
    /\ flip = <<>>
    /\ platform = [hw |-> {}, os |-> {}, build |-> {}, std |-> FALSE]
    /\ FEATURES = Unknown
    /\ threads = [t \in Threads |-> NewThread(0, 0, 0)]
    /\ first = NoEntry

\* ---------------------------------------------------------------- actions

\* The run takes the step `next` of its engine; the driver waits.
Take(next) ==
    /\ run' = next
    /\ UNCHANGED <<phase, flip, ditvars>>

\* generic.rs 128-134
GenericLenCheck == run.pc = "impl_len" /\ Take(ImplLenCheck(run))
\* generic.rs 137-139
GenericEmptyCheck == run.pc = "impl_empty" /\ Take(ImplEmptyCheck(run))
\* generic.rs 165-169
GenericWordLoop == run.pc = "word_loop" /\ Take(Step(run))
\* generic.rs 174-178
GenericU128Loop == run.pc = "u128_loop" /\ Take(Step(run))
\* generic.rs 179-183
GenericU64Block == run.pc = "u64_if" /\ Take(Step(run))
\* generic.rs 184-188
GenericU32Block == run.pc = "u32_if" /\ Take(Step(run))
\* generic.rs 189-193
GenericU16Block == run.pc = "u16_if" /\ Take(Step(run))
\* generic.rs 194-198
GenericU8Block == run.pc = "u8_if" /\ Take(Step(run))
\* generic.rs 200
GenericFinal == run.pc = "final" /\ Take(ImplFinal(run))

\* sse2.rs 298, neon.rs 282
VectorLenCheck == run.pc = "simd_len" /\ Take(SimdLenCheck(run))
\* sse2.rs 168-186, neon.rs 180-194
VectorTwoFirst ==
    run.pc = "simd_dispatch" /\ run.n >= 2 * LANES /\ Take(SimdTwoFirst(run))
\* sse2.rs 188-207, neon.rs 196-211
VectorTwoLoop == run.pc = "simd_loop2" /\ Take(SimdTwoLoop(run))
\* sse2.rs 209-224, neon.rs 213-226
VectorTwoLane == run.pc = "simd_lane" /\ Take(SimdTwoLane(run))
\* sse2.rs 226-238, neon.rs 228-239
VectorTwoPartial == run.pc = "simd_partial" /\ Take(SimdTwoPartial(run))
\* sse2.rs 239-251, neon.rs 240-250
VectorOneFirst ==
    run.pc = "simd_dispatch" /\ run.n < 2 * LANES /\ run.n >= LANES
    /\ Take(SimdOneFirst(run))
\* sse2.rs 253-263, neon.rs 252-261
VectorOnePartial == run.pc = "simd1_partial" /\ Take(SimdOnePartial(run))
\* sse2.rs 264-271, neon.rs 262-268
VectorPartialOnly ==
    run.pc = "simd_dispatch" /\ run.n < LANES /\ run.n > 0
    /\ Take(SimdPartialOnly(run))
\* sse2.rs 272-274, neon.rs 269-271
VectorEmpty == run.pc = "simd_dispatch" /\ run.n = 0 /\ Take(SimdEmpty(run))
\* sse2.rs 276
VectorFinalSse2 ==
    run.pc = "simd_final" /\ run.backend = "sse2" /\ Take(Sse2Final(run))
\* neon.rs 273-276
VectorFinalNeon ==
    run.pc = "simd_final" /\ run.backend = "neon" /\ Take(NeonFinal(run))

\* exhaustive.rs 21-25, 28-29: after assert!(cteq(a, b)) on equal buffers,
\* a[i] ^= m or b[i] ^= m, and the next call of cteq.  Of the flips m in
\* [0x01, ..., 0x80]: the lowest bit of a byte of a, the highest of one of b,
\* on buffers filled with zeros or with the pseudorandom stream.
TestFlip ==
    /\ phase = "initial"
    /\ run.pc = "done"
    /\ run.api = "eq"
    /\ run.memA = run.memB
    /\ \E f \in {"zeros", "random"} : run.memA = Filled(f, Len(run.memA))
    /\ \E c \in {<<"a", 1>>, <<"b", 128>>}, i \in 1..Len(run.memA) :
          /\ flip' = <<c[1], i, c[2]>>
          /\ run' = Start(run.backend, run.W, run.api,
                          IF c[1] = "a" THEN FlipBit(run.memA, i, c[2]) ELSE run.memA,
                          IF c[1] = "b" THEN FlipBit(run.memB, i, c[2]) ELSE run.memB,
                          ZeroWord(run.W))
    /\ phase' = "flipped"
    /\ UNCHANGED ditvars

\* exhaustive.rs 26, 30, 33: the same bit flipped back, and the call of cteq
\* on the restored buffers.
TestRestore ==
    /\ phase = "flipped"
    /\ run.pc = "done"
    /\ run' = Start(run.backend, run.W, run.api,
                    IF flip[1] = "a" THEN FlipBit(run.memA, flip[2], flip[3]) ELSE run.memA,
                    IF flip[1] = "b" THEN FlipBit(run.memB, flip[2], flip[3]) ELSE run.memB,
                    ZeroWord(run.W))
    /\ phase' = "restored"
    /\ flip' = <<>>
    /\ UNCHANGED ditvars

Next ==
    \/ GenericLenCheck
    \/ GenericEmptyCheck
    \/ GenericWordLoop
    \/ GenericU128Loop
    \/ GenericU64Block
    \/ GenericU32Block
    \/ GenericU16Block
    \/ GenericU8Block
    \/ GenericFinal
    \/ VectorLenCheck
    \/ VectorTwoFirst
    \/ VectorTwoLoop
    \/ VectorTwoLane
    \/ VectorTwoPartial
    \/ VectorOneFirst
    \/ VectorOnePartial
    \/ VectorPartialOnly
    \/ VectorEmpty
    \/ VectorFinalSse2
    \/ VectorFinalNeon
    \/ TestFlip
    \/ TestRestore

Spec == Init /\ [][Next]_vars

\* ------------------------------------------------------ actions of dit.rs

\* Thread t becomes th; the cache and the comparison are left alone.
ThreadStep(t, th) ==
    /\ threads' = [threads EXCEPT ![t] = th]
    /\ UNCHANGED <<platform, run, phase, flip>>

\* The entry point e is called: the first call of all is remembered.
Entered(e) == first' = IF first = NoEntry THEN e ELSE first

\* Thread t is inside the computation f of its innermost with_dit call.
InBody(t) ==
    /\ threads[t].stack # <<>>
    /\ Top(threads[t]).pc = "body"
    /\ ~threads[t].unwinding

\* Thread t is at the place pc of its innermost with_dit call.
At(t, pc) == threads[t].stack # <<>> /\ Top(threads[t]).pc = pc

\* dit.rs 278-285: with_dit(f) is called, from the top level of the thread or
\* from inside the computation of another with_dit call.
CallWithDit(t) ==
    /\ threads[t].calls > 0
    /\ \/ threads[t].stack = <<>> /\ ~threads[t].unwinding
       \/ InBody(t) /\ Len(threads[t].stack) < MaxDepth
    /\ ThreadStep(t, Event([threads[t] EXCEPT
                                !.stack = Append(@, NewFrame(threads[t].dit)),
                                !.calls = @ - 1],
                           "call"))
    /\ Entered([kind |-> "with_dit", dit |-> FALSE, sb |-> FALSE])
    /\ UNCHANGED FEATURES

\* dit.rs 34-42 (121-126 when both features are enabled at build time)
GetFeatures(t) ==
    /\ At(t, "get")
    /\ ThreadStep(t, GetLoaded(platform, FEATURES, threads[t]))
    /\ UNCHANGED <<FEATURES, first>>

\* dit.rs 65-74 or 79-97, and 50-60: the detection and its compare_exchange;
\* the value used is the one computed, whatever the cache holds afterwards.
DetectFeatures(t) ==
    /\ At(t, "detect")
    /\ FEATURES' = compare_exchange(FEATURES, Unknown, AsU8(Detected(platform)))
    /\ ThreadStep(t, WithTop(threads[t], [Top(threads[t]) EXCEPT
                                            !.features = Detected(platform),
                                            !.detected = TRUE,
                                            !.pc = "match"]))
    /\ UNCHANGED first

\* dit.rs 285-295
MatchFeatures(t) ==
    /\ At(t, "match")
    /\ ThreadStep(t, Matched(threads[t]))
    /\ UNCHANGED <<FEATURES, first>>

\* dit.rs 226-229, 263-266
SaveDit(t) ==
    /\ At(t, "save")
    /\ ThreadStep(t, GuardTaken(threads[t]))
    /\ UNCHANGED <<FEATURES, first>>

\* dit.rs 232, 269
EnableDit(t) ==
    /\ At(t, "enable")
    /\ ThreadStep(t, DitSet(threads[t]))
    /\ UNCHANGED <<FEATURES, first>>

\* dit.rs 235, 271
Barrier(t) ==
    /\ At(t, "barrier")
    /\ ThreadStep(t, BarrierDone(threads[t]))
    /\ UNCHANGED <<FEATURES, first>>

\* dit.rs 237, 273, 294: f() returns a value.
BodyReturn(t) ==
    /\ InBody(t)
    /\ \E v \in BOOLEAN : ThreadStep(t, BodyEnded(threads[t], v, FALSE))
    /\ UNCHANGED <<FEATURES, first>>

\* dit.rs 237, 273, 294: f() panics.
BodyPanic(t) ==
    /\ InBody(t)
    /\ ThreadStep(t, BodyEnded(threads[t], FALSE, TRUE))
    /\ UNCHANGED <<FEATURES, first>>

\* dit.rs 218-224, 238, 255-261, 274, 295: the call is left, by return or by
\* unwinding, and the guard it holds is dropped.
LeaveFrame(t) ==
    /\ At(t, "leave")
    /\ ThreadStep(t, FrameLeft(threads[t]))
    /\ UNCHANGED <<FEATURES, first>>

\* dit.rs 109-115, 50-60: set_aarch64_dit_sb_features(dit, sb), with no
\* feature claimed that the processor lacks (the safety precondition).
Override(t) ==
    /\ threads[t].overrides > 0
    /\ threads[t].stack = <<>> \/ InBody(t)
    /\ \E dit \in BOOLEAN, sb \in BOOLEAN :
          /\ dit => "dit" \in platform.hw
          /\ sb => "sb" \in platform.hw
          /\ FEATURES' = IF DetectCompiledOut(platform) THEN FEATURES
                         ELSE compare_exchange(FEATURES, Unknown,
                                               AsU8(FeaturesOf(platform, dit, sb)))
          /\ Entered([kind |-> "set", dit |-> dit, sb |-> sb])
    /\ ThreadStep(t, [threads[t] EXCEPT !.overrides = @ - 1, !.sets = @ + 1])

\* One thread calls with_dit, nested up to MaxDepth, on every platform and
\* from either value of its DIT register.
InitDit ==
    /\ run = NewRun("generic", SizeU64, "eq", <<>>, <<>>, ZeroWord(SizeU64))
    /\ phase = "initial"
    /\ flip = <<>>
    /\ platform \in Platforms
    /\ FEATURES = Unknown
    /\ first = NoEntry
    /\ \E reg \in {0, DitEnabled} :
          /\ reg # 0 => "dit" \in platform.hw
          /\ threads = [t \in Threads |->
                          IF t = 1 THEN NewThread(reg, MaxCalls, MaxOverrides)
                          ELSE NewThread(0, 0, 0)]

NextDit ==
    \E t \in Threads :
        \/ CallWithDit(t)
        \/ GetFeatures(t)
        \/ DetectFeatures(t)
        \/ MatchFeatures(t)
        \/ SaveDit(t)
        \/ EnableDit(t)
        \/ Barrier(t)
        \/ BodyReturn(t)
        \/ BodyPanic(t)
        \/ LeaveFrame(t)
        \/ Override(t)

SpecDit == InitDit /\ [][NextDit]_vars

\* Every thread makes its first with_dit call, in any interleaving, from a
\* clear DIT register, and one of them (the threads being alike, thread 1)
\* calls set_aarch64_dit_sb_features at any moment.
InitCache ==
    /\ run = NewRun("generic", SizeU64, "eq", <<>>, <<>>, ZeroWord(SizeU64))
    /\ phase = "initial"
    /\ flip = <<>>
    /\ platform \in Platforms
    /\ FEATURES = Unknown
    /\ first = NoEntry
    /\ threads = [t \in Threads |->
                      NewThread(0, 1, IF t = 1 THEN MaxOverrides ELSE 0)]

SpecCache == InitCache /\ [][NextDit]_vars

\* ----------------------------------------------------------------- claims

\* a == b of two byte slices.
SameBytes(x, y) == Len(x) = Len(y) /\ \A i \in 1..Len(x) : x[i] = y[i]

\* The run has returned.
Done == run.pc = "done"

\* The call api(memA, memB) of the backend of the current run, run to its return.
Other(api, memA, memB) ==
    Finish(Start(run.backend, run.W, api, memA, memB, ZeroWord(run.W)))

\* C1: for inputs of equal length, on every backend, constant_time_eq returns
\* true exactly when the inputs are byte-for-byte equal.
C1_EqualLengthResult ==
    (Done /\ run.api = "eq" /\ Len(run.memA) = Len(run.memB))
        => (run.ret <=> SameBytes(run.memA, run.memB))

\* C1's case: a call on a vector backend, longer than two registers, whose
\* inputs differ in one bit, has returned false.
C1_Witness ==
    /\ Done /\ run.api = "eq" /\ run.backend = "sse2"
    /\ phase = "flipped" /\ Len(run.memA) > 2 * LANES
    /\ ~run.ret

\* C2: for inputs of different lengths the call returns false and has read no
\* byte of either input, on every backend, and in constant_time_eq_impl for
\* every initial accumulator.
C2_LengthMismatch ==
    (Done /\ Len(run.memA) # Len(run.memB))
        => /\ run.ret = FALSE
           /\ run.readsA = <<>> /\ run.readsB = <<>>
           /\ run.steps = 0 /\ ~run.oob

\* C2's case: constant_time_eq_impl, called with accumulator 0 on inputs of
\* different lengths, has returned.
C2_Witness ==
    /\ Done /\ run.api = "impl" /\ IsZero(run.tmp)
    /\ Len(run.memA) # Len(run.memB) /\ Len(run.memA) > 0 /\ Len(run.memB) > 0
    /\ ~run.ret

\* C3: a run on inputs of equal length takes the branch decisions, and as
\* many chunk steps, as the run of the same engine on all-zero inputs of that
\* length with accumulator 0: both depend on the length alone, not on the
\* bytes or the accumulator.
C3_BranchesDependOnLength ==
    (Done /\ Len(run.memA) = Len(run.memB))
        => LET canon == Other(run.api, Filled("zeros", Len(run.memA)),
                                       Filled("zeros", Len(run.memB)))
           IN  run.trace = canon.trace /\ run.steps = canon.steps

\* C3's case: a run of the generic engine on differing inputs of more than one
\* word, started with a non-zero accumulator, has returned.
C3_Witness ==
    /\ Done /\ run.api = "impl" /\ ~IsZero(run.tmp)
    /\ Len(run.memA) = Len(run.memB) /\ Len(run.memA) > run.W
    /\ ~SameBytes(run.memA, run.memB)
    /\ run.steps > 1

\* C4: on every backend the call on identical buffers returns true, the call
\* after one bit of either buffer was flipped returns false, and the call
\* after the bit was flipped back returns true.
C4_BitFlip ==
    Done =>
        /\ (phase = "initial" /\ run.api = "eq" /\ run.memA = run.memB) => run.ret
        /\ phase = "flipped" => ~run.ret
        /\ phase = "restored" => (run.memA = run.memB /\ run.ret)

\* C4's case: the call after a bit was flipped and flipped back, on inputs
\* longer than two vector registers, has returned.
C4_Witness ==
    /\ Done /\ phase = "restored" /\ run.backend = "neon"
    /\ Len(run.memA) > 2 * LANES /\ run.ret

\* C5: constant_time_eq_n returns what constant_time_eq returns on the same
\* bytes, and constant_time_eq_16, _32, _64 return what constant_time_eq_n
\* returns, on arrays of 16, 32, 64 bytes.
C5_FixedSizeAgrees ==
    Done =>
        /\ run.api = "eq_n" => run.ret = Other("eq", run.memA, run.memB).ret
        /\ run.api = "eq_16" =>
              (Len(run.memA) = 16 /\ run.ret = Other("eq_n", run.memA, run.memB).ret)
        /\ run.api = "eq_32" =>
              (Len(run.memA) = 32 /\ run.ret = Other("eq_n", run.memA, run.memB).ret)
        /\ run.api = "eq_64" =>
              (Len(run.memA) = 64 /\ run.ret = Other("eq_n", run.memA, run.memB).ret)

\* C5's case: constant_time_eq_64 has returned false on arrays that differ in
\* their last byte alone.
C5_Witness ==
    /\ Done /\ run.api = "eq_64" /\ ~run.ret
    /\ \A i \in 1..63 : run.memA[i] = run.memB[i]

\* C6: constant_time_eq(a, a) returns true.
C6_Reflexive ==
    (Done /\ run.api = "eq" /\ run.memA = run.memB) => run.ret = TRUE

\* C6's case: constant_time_eq has returned on two copies of a non-empty
\* buffer that is not all zero.
C6_Witness ==
    /\ Done /\ run.api = "eq" /\ run.memA = run.memB
    /\ Len(run.memA) > LANES /\ run.memA[1] # 0
    /\ run.ret

\* C7: constant_time_eq(a, b) == constant_time_eq(b, a), for equal and for
\* different lengths.
C7_Symmetric ==
    (Done /\ run.api = "eq") => run.ret = Other("eq", run.memB, run.memA).ret

\* C7's case: constant_time_eq has returned on a pair whose first input is the
\* shorter one and a prefix of the second.
C7_Witness ==
    /\ Done /\ run.api = "eq" /\ run.backend # "generic"
    /\ Len(run.memA) < Len(run.memB)
    /\ \A i \in 1..Len(run.memA) : run.memA[i] = run.memB[i]

\* C8: after a with_dit call that returned, the DIT register of the thread
\* holds the value it held when the call was made, whatever the Features
\* value the call used.
C8_DitRestoredOnReturn ==
    \A t \in Threads :
        (threads[t].last.depth > 0 /\ ~threads[t].last.unwound)
            => threads[t].last.exit = threads[t].last.entry

\* C8's case: a call that found the register clear, enabled DIT and returned.
C8_Witness ==
    \E t \in Threads :
        /\ threads[t].last.depth > 0 /\ ~threads[t].last.unwound
        /\ threads[t].last.guarded /\ threads[t].last.entry = 0

\* C9: after a with_dit call that was left by unwinding, the DIT register
\* holds the value saved at the entry of the call.
C9_DitRestoredOnUnwind ==
    \A t \in Threads :
        (threads[t].last.depth > 0 /\ threads[t].last.unwound)
            => /\ threads[t].last.exit = threads[t].last.entry
               /\ threads[t].last.guarded => threads[t].last.exit = threads[t].last.guard

\* C9's case: a call that found the register clear, enabled DIT and was left
\* by a panic of its computation.
C9_Witness ==
    \E t \in Threads :
        /\ threads[t].last.depth > 0 /\ threads[t].last.unwound
        /\ threads[t].last.guarded /\ threads[t].last.entry = 0

\* C10: each with_dit call restores the value it read at its own entry: back
\* in the computation of the caller after a nested call returned, the register
\* holds what the caller had set (DIT enabled when the caller holds a guard),
\* and after the outermost call it holds the value from before that call.
C10_NestedRestore ==
    \A t \in Threads :
        LET th == threads[t]
        IN  /\ (th.last.depth > 0 /\ th.last.guarded) => th.last.exit = th.last.guard
            /\ (th.last.depth = 1 /\ th.stack = <<>>) => th.dit = th.last.entry
            /\ (th.last.depth > Len(th.stack) /\ InBody(t)) =>
                  th.dit = IF Top(th).guarded THEN DitEnabled ELSE Top(th).entry

\* C10's case: a thread is back in the computation of an outer call, which
\* found the register clear and enabled DIT, after a nested call that held a
\* guard of its own returned.
C10_Witness ==
    \E t \in Threads :
        /\ InBody(t) /\ Len(threads[t].stack) = 1
        /\ threads[t].last.depth = 2 /\ threads[t].last.guarded
        /\ Top(threads[t]).guarded /\ Top(threads[t]).entry = 0

\* The computation of the call at depth k of thread t is running (a nested
\* call may be in progress inside it).
BodyRunning(t, k) == k \in 1..Len(threads[t].stack) /\ threads[t].stack[k].pc = "body"

\* C11 as stated: whenever the processor implements FEAT_DIT, the DIT register
\* reads as non-zero at every point inside the computation with_dit runs.
C11_AsStated ==
    \A t \in Threads : \A k \in 1..MaxDepth + 1 :
        ("dit" \in platform.hw /\ BodyRunning(t, k)) => threads[t].dit # 0

\* C11 (amended): whenever the Features value a with_dit call uses is DitOnly
\* or DitSb, the DIT register reads as non-zero at every point inside the
\* computation that call runs, nested calls included.
C11_DitEnabledInBody ==
    \A t \in Threads : \A k \in 1..MaxDepth + 1 :
        (BodyRunning(t, k) /\ threads[t].stack[k].features \in {DitOnly, DitSb})
            => threads[t].dit # 0

\* C11's case: a call that uses DitOnly, entered with the register clear, is
\* running its computation.
C11_Witness ==
    \E t \in Threads :
        /\ InBody(t) /\ Top(threads[t]).features = DitOnly
        /\ Top(threads[t]).entry = 0 /\ threads[t].dit = DitEnabled

\* The Features values: the discriminants a non-zero cache can hold.
FeaturesValues == {Neither, DitOnly, DitSb}

\* C12: in every interleaving of with_dit and set_aarch64_dit_sb_features
\* calls, the cache FEATURES changes only from 0 to one of 1, 2, 3, hence at
\* most once, and once non-zero never again.
C12_CacheSetOnce ==
    [][/\ FEATURES' \in {Unknown} \cup FeaturesValues
       /\ FEATURES' # FEATURES => (FEATURES = Unknown /\ FEATURES' \in FeaturesValues)]_vars

\* C12's case: the cache is set, and a thread has run the detection and come
\* out with another value than the cache holds: its compare_exchange came
\* after the write of an override and changed nothing.
C12_Witness ==
    /\ FEATURES \in FeaturesValues
    /\ \E t \in Threads :
          /\ threads[t].stack # <<>> /\ Top(threads[t]).detected
          /\ Top(threads[t]).features # FEATURES

\* No thread has called set_aarch64_dit_sb_features.
NoOverride == \A t \in Threads : threads[t].sets = 0

\* What get_aarch64_dit_sb_features returns once the cache is set; a build
\* with both features enabled has no cache and the constant DitSb.
CacheValue == IF DetectCompiledOut(platform) THEN DitSb ELSE FEATURES

\* C13: when threads make their first calls concurrently and no override was
\* made, the Features value every call has got is the value the cache holds,
\* hence the same in all threads.
C13_SameFeaturesEverywhere ==
    NoOverride =>
        \A t \in Threads :
            /\ \A k \in 1..Len(threads[t].stack) :
                  threads[t].stack[k].features # Unknown
                      => threads[t].stack[k].features = CacheValue
            /\ threads[t].last.depth > 0 => threads[t].last.features = CacheValue

\* C13's case: two threads found the cache unknown, both ran the detection,
\* and both are in their computations.
C13_Witness ==
    /\ NoOverride
    /\ \E t1 \in Threads, t2 \in Threads :
          /\ t1 # t2 /\ InBody(t1) /\ InBody(t2)
          /\ Top(threads[t1]).detected /\ Top(threads[t2]).detected
          /\ Top(threads[t1]).features = DitOnly

\* C14: if set_aarch64_dit_sb_features(dit, sb) was the first entry point
\* called, every with_dit call uses the Features value of (dit, sb), and the
\* detection never runs.
C14_OverrideFirst ==
    first.kind = "set" =>
        LET want == FeaturesOf(platform, first.dit, first.sb)
        IN  \A t \in Threads :
               /\ \A k \in 1..Len(threads[t].stack) :
                     LET f == threads[t].stack[k]
                     IN  /\ f.pc # "detect" /\ ~f.detected
                         /\ f.features # Unknown => f.features = want
               /\ threads[t].last.depth > 0 =>
                     (threads[t].last.features = want /\ ~threads[t].last.detected)

\* C14's case: after an override that came first and declared another value
\* than the detection finds, two threads are in their computations.
C14_Witness ==
    /\ first.kind = "set"
    /\ FeaturesOf(platform, first.dit, first.sb) # Detected(platform)
    /\ \E t1 \in Threads, t2 \in Threads :
          /\ t1 # t2 /\ InBody(t1) /\ InBody(t2)
          /\ Top(threads[t1]).features = FeaturesOf(platform, first.dit, first.sb)

\* C15: on the same inputs, of equal or different lengths, constant_time_eq
\* of a vector backend returns what generic::constant_time_eq returns, Word
\* being u32 or u64 as on the targets of the vector engines.
C15_VectorAgreesWithGeneric ==
    (Done /\ run.api = "eq" /\ run.backend # "generic")
        => \A W \in {SizeU32, SizeU64} :
              run.ret = Finish(Start("generic", W, "eq", run.memA, run.memB,
                                     ZeroWord(W))).ret

\* C15's case: a vector backend has returned false on inputs of more than
\* three registers that differ in one bit of the last byte.
C15_Witness ==
    /\ Done /\ run.api = "eq" /\ run.backend = "neon"
    /\ phase = "flipped" /\ Len(run.memA) > 3 * LANES
    /\ flip[2] = Len(run.memA)
    /\ ~run.ret

\* The run is one of constant_time_eq_impl, entered with accumulator 0 on
\* inputs of equal length.
ImplFromZero ==
    /\ run.backend = "generic" /\ IsZero(run.seed)
    /\ Len(run.memA) = Len(run.memB)

\* The accumulator is zero exactly when the bytes consumed so far agree; it
\* was compared with zero once if the run has returned and never before, and
\* nothing remains to consume when it has returned.
AccumulatorTracksPrefix ==
    ImplFromZero =>
        /\ IsZero(run.tmp) <=> (\A i \in 1..run.a.ptr : run.memA[i] = run.memB[i])
        /\ run.zero_tests = (IF Done THEN 1 ELSE 0)
        /\ Done => run.a.len = 0

\* C16: in constant_time_eq_impl entered with accumulator 0 on equal-length
\* inputs, in every state the accumulator is zero exactly when all bytes
\* consumed so far are equal; no step of the run clears a bit of it; and it is
\* compared with zero exactly once, when nothing remains to consume.
C16_AccumulatorInvariant ==
    [][/\ AccumulatorTracksPrefix
       /\ AccumulatorTracksPrefix'
       /\ (ImplFromZero /\ phase' = phase) => AndWord(run.tmp, run'.tmp) = run.tmp]_vars

\* C16's case: the first byte differs, the run has taken two chunk steps or
\* more and has more to take, and the accumulator is still non-zero.
C16_Witness ==
    /\ ImplFromZero /\ phase = "flipped" /\ flip[2] = 1
    /\ run.steps >= 2 /\ run.a.len > 0
    /\ ~IsZero(run.tmp)

\* The byte indices the reads of a log cover.
Covered(reads) ==
    UNION {(reads[j][1] + 1)..(reads[j][1] + reads[j][2]) : j \in 1..Len(reads)}

\* Every bit of the vector is set.
AllOnes(v) == \A i \in 1..Len(v) : v[i] = 255

\* The run is in the two-mask path of a vector engine (n >= LANES * 2), with
\* mask0 and mask1 set from the first two vectors.
TwoMaskPath ==
    /\ run.backend # "generic"
    /\ run.pc \in {"simd_loop2", "simd_lane", "simd_partial", "simd_final", "done"}
    /\ run.mask0 # <<>>

\* mask0 & mask1
RunningMask == VecAnd(run, run.mask0, run.mask1)

\* The AND of the two masks has all bits set exactly when the bytes read so
\* far agree, and it is the mask the final test extracts from.
MasksTrackPrefix ==
    TwoMaskPath =>
        /\ AllOnes(RunningMask)
              <=> (\A i \in Covered(run.readsA) : run.memA[i] = run.memB[i])
        /\ Covered(run.readsA) = Covered(run.readsB)
        /\ run.pc \in {"simd_final", "done"} =>
              (run.mask = RunningMask /\ Covered(run.readsA) = 1..Len(run.memA))

\* C17: in the SSE2 and NEON engines, in every state of the two-mask loop
\* and of the steps that fold a trailing full vector into mask0 and a partial
\* vector into mask1, mask0 & mask1 has all bits set exactly when every byte
\* compared so far is equal, and no step sets a lane of it that was cleared.
C17_MaskInvariant ==
    [][/\ MasksTrackPrefix
       /\ MasksTrackPrefix'
       /\ (TwoMaskPath /\ TwoMaskPath' /\ phase' = phase)
             => AndWord(RunningMask', RunningMask) = RunningMask']_vars

\* C17's case: after two full vectors, a trailing full vector and a partial
\* vector, with the only difference in the partial vector, mask0 has all bits
\* set and mask0 & mask1 has not.
C17_Witness ==
    /\ TwoMaskPath /\ run.pc = "simd_final" /\ run.backend = "sse2"
    /\ Len(run.memA) % (2 * LANES) > LANES
    /\ phase = "flipped" /\ flip[2] = Len(run.memA)
    /\ AllOnes(run.mask0) /\ ~AllOnes(RunningMask)

\* C18: for equal-length inputs and any initial accumulator s,
\* constant_time_eq_impl(a, b, s) returns true exactly when s is 0 and a
\* equals b; for empty inputs it returns s == 0 and reads no byte.
C18_ImplWithSeed ==
    (Done /\ run.api = "impl" /\ Len(run.memA) = Len(run.memB))
        => /\ run.ret <=> (IsZero(run.seed) /\ SameBytes(run.memA, run.memB))
           /\ Len(run.memA) = 0 =>
                 (run.ret = IsZero(run.seed) /\ run.readsA = <<>> /\ run.readsB = <<>>)

\* C18's case: constant_time_eq_impl, entered with a non-zero accumulator on
\* equal inputs of more than one word, has returned false.
C18_Witness ==
    /\ Done /\ run.api = "impl" /\ ~IsZero(run.seed)
    /\ run.memA = run.memB /\ Len(run.memA) > run.W
    /\ ~run.ret

\* The number of passes of the natural-word loop the run has made.
WordPasses ==
    Cardinality({j \in 1..Len(run.trace) : run.trace[j] = <<"word_loop", TRUE>>})

\* The sizes of the chunks read after the natural-word loop, in order.
TailSizes ==
    [j \in 1..(Len(run.readsA) - WordPasses) |-> run.readsA[WordPasses + j][2]]

\* The reads of the log follow each other from byte 0 to byte n without gap
\* or overlap: every byte index below n is read exactly once.
ReadOnce(reads, n) ==
    /\ \A j \in 1..Len(reads) :
          reads[j][1] = (IF j = 1 THEN 0 ELSE reads[j - 1][1] + reads[j - 1][2])
    /\ n = (IF reads = <<>> THEN 0 ELSE reads[Len(reads)][1] + reads[Len(reads)][2])

\* C19: in constant_time_eq_impl, for every natural word size and every input
\* length, the chunks after the natural-word loop have sizes among 8, 4, 2, 1
\* bytes, below the word size and strictly decreasing (each at most once),
\* every byte index of both inputs is read exactly once, and no byte remains
\* when the final zero test is reached.
C19_TailDecomposition ==
    (run.backend = "generic" /\ Len(run.memA) = Len(run.memB)
        /\ run.pc \in {"final", "done"})
        => /\ run.a.len = 0 /\ run.b.len = 0 /\ ~run.oob
           /\ ReadOnce(run.readsA, Len(run.memA))
           /\ ReadOnce(run.readsB, Len(run.memB))
           /\ \A j \in 1..WordPasses : run.readsA[j][2] = run.W
           /\ \A j \in 1..Len(TailSizes) :
                 /\ TailSizes[j] \in {SizeU64, SizeU32, SizeU16, SizeU8}
                 /\ TailSizes[j] < run.W
                 /\ j > 1 => TailSizes[j] < TailSizes[j - 1]

\* C19's case: with a 16-byte word, a 15-byte remainder was read as chunks of
\* 8, 4, 2 and 1 bytes, and the final zero test is next.
C19_Witness ==
    /\ run.backend = "generic" /\ run.W = SizeU128 /\ run.pc = "final"
    /\ Len(run.memA) = Len(run.memB)
    /\ TailSizes = <<SizeU64, SizeU32, SizeU16, SizeU8>>

\* The mask a vector engine extracts for its final test, as bytes: the 16
\* bits of movemask_epi8, or the 64 bits of the shrn #4 narrowing.
ExtractedMask(r) ==
    IF r.backend = "sse2"
    THEN <<movemask_epi8(r.mask) % 256, movemask_epi8(r.mask) \div 256>>
    ELSE vshrn_n_u16_4_hide(r.mask)

\* The bitwise complement of a mask, as a Word of w bytes: zero exactly when
\* the mask has all bits set.
ComplementAsWord(m, w) == AsWord([i \in 1..Len(m) |-> 255 - m[i]], w)

\* C20 as stated: a vector engine that is left with a remainder shorter than
\* one 16-byte register calls constant_time_eq_impl on it, with an initial
\* accumulator that is the bitwise complement of the extracted mask.
C20_AsStated ==
    (Done /\ run.backend # "generic" /\ Len(run.memA) = Len(run.memB)
        /\ Len(run.memA) % LANES # 0)
        => /\ \E j \in 1..Len(run.calls) : run.calls[j] = "constant_time_eq_impl"
           /\ run.seed = ComplementAsWord(ExtractedMask(run), run.W)

\* The lane layout of the partial load of n bytes: what it loads from the
\* bytes 1, 2, ..., n, so that lane i holds k when it holds the byte at
\* offset k - 1, and 0 when it holds none.
PartialLayout ==
    [backend \in {"sse2", "neon"} |->
        [n \in 0..LANES |->
            VecLoadPartial([backend |-> backend], [k \in 1..n |-> k], 0, n)]]

\* C21: for every n in 0..16, the partial load of the run's vector backend
\* (loadu_partial, vld1q_u8_partial) on the last n bytes of a buffer reads
\* only these n bytes, places each of them in at least one lane, leaves
\* every other lane zero, and puts bytes in lanes by a layout that depends on
\* n alone (the one it has on the bytes 1, 2, ..., n); and the compare of
\* the partial loads of two n-byte remainders is all-ones exactly when the
\* remainders are equal.  Checked for every n on the buffers of a first
\* call, and for the remainder the engine is left with on the buffers the
\* test driver has flipped a bit of.
C21_PartialLoad ==
    (Done /\ run.backend # "generic")
        => \A n \in (IF phase = "initial" THEN 0..LANES
                     ELSE {Len(run.memA) % LANES}) :
              LET layout == PartialLayout[run.backend][n]
                  pa == Len(run.memA) - n
                  pb == Len(run.memB) - n
                  la == VecLoadPartial(run, run.memA, pa, n)
                  lb == VecLoadPartial(run, run.memB, pb, n)
                  Lays(mem, ptr, loaded) ==
                      LET cov == Covered(VecPartialReads(run, ptr, n))
                      IN  /\ cov \subseteq (ptr + 1)..(ptr + n)
                          /\ \A i \in 1..LANES :
                                IF layout[i] = 0 THEN loaded[i] = 0
                                ELSE /\ ptr + layout[i] \in cov
                                     /\ loaded[i] = mem[ptr + layout[i]]
              IN  /\ \A k \in 1..n : \E i \in 1..LANES : layout[i] = k
                  /\ pa >= 0 => Lays(run.memA, pa, la)
                  /\ pb >= 0 => Lays(run.memB, pb, lb)
                  /\ (pa >= 0 /\ pa = pb)
                        => (AllOnes(VecCmpEq(run, la, lb))
                            <=> ReadBytes(run.memA, pa, n) = ReadBytes(run.memB, pb, n))

\* C21's case: the NEON engine has read the 7-byte remainder of two 23-byte
\* inputs that differ in their last byte alone, as two overlapping 4-byte
\* loads, and has returned false.
C21_Witness ==
    /\ Done /\ run.backend = "neon" /\ Len(run.memA) = 23 /\ Len(run.memB) = 23
    /\ ReadBytes(run.memA, 0, 22) = ReadBytes(run.memB, 0, 22)
    /\ run.memA[23] # run.memB[23]
    /\ run.readsA[Len(run.readsA)] = <<19, 4>>
    /\ run.ret = FALSE

\* C22: the events of the with_dit calls of a thread at one nesting depth
\* come in the order call, save, enable, barrier, body, restore,
\* return-or-unwind when the call wraps its computation, and call, body,
\* return-or-unwind when it does not: the computation starts right after the
\* barrier, and a save is followed by one restore before the call is left.
\* A call whose Features value is DitOnly or DitSb wraps its computation,
\* and its barrier is `sb` exactly when the value is DitSb, `dsb nsh; isb sy`
\* otherwise.
C22_WrappedOrder ==
    \A t \in Threads :
        LET th == threads[t]
            At_(d) == SelectSeq(th.events, LAMBDA e : e[2] = d)
            Ends == {"return", "unwind"}
            Barriers == {"sb", "dsb_isb"}
            Name(D, i) == IF i \in 1..Len(D) THEN D[i][1] ELSE "none"
            BarrierOf(features) == IF features = DitSb THEN "sb" ELSE "dsb_isb"
        IN  /\ \A d \in {th.events[j][2] : j \in 1..Len(th.events)} :
                  LET D == At_(d)
                  IN  \A i \in 1..Len(D) :
                         CASE D[i][1] = "call" -> i = 1 \/ Name(D, i - 1) \in Ends
                           [] D[i][1] = "save" -> Name(D, i - 1) = "call"
                           [] D[i][1] = "enable" -> Name(D, i - 1) = "save"
                           [] D[i][1] \in Barriers -> Name(D, i - 1) = "enable"
                           [] D[i][1] = "body" -> Name(D, i - 1) \in Barriers \cup {"call"}
                           [] D[i][1] = "restore" ->
                                 Name(D, i - 1) = "body" /\ Name(D, i - 2) \in Barriers
                           [] D[i][1] \in Ends ->
                                 \/ Name(D, i - 1) = "restore"
                                 \/ Name(D, i - 1) = "body" /\ Name(D, i - 2) = "call"
                           [] OTHER -> FALSE
            /\ \A k \in 1..Len(th.stack) :
                  LET f == th.stack[k]
                      D == At_(k)
                  IN  (f.features \in {DitOnly, DitSb} /\ f.pc \in {"body", "leave"})
                         => /\ Name(D, Len(D)) = "body"
                            /\ Name(D, Len(D) - 1) = BarrierOf(f.features)
                            /\ Name(D, Len(D) - 4) = "call"
            /\ (th.events # <<>> /\ th.events[Len(th.events)][1] \in Ends
                    /\ th.last.features \in {DitOnly, DitSb})
                  => LET D == At_(th.last.depth)
                     IN  /\ Name(D, Len(D) - 1) = "restore"
                         /\ Name(D, Len(D) - 3) = BarrierOf(th.last.features)
                         /\ Name(D, Len(D) - 6) = "call"

\* C22's case: a call nested in the computation of another, both with
\* FEAT_DIT and without FEAT_SB recorded, was left by a panic after its
\* `dsb nsh; isb sy` barrier, its computation and its restore.
C22_Witness ==
    \E t \in Threads :
        /\ threads[t].last.depth = 2 /\ threads[t].last.features = DitOnly
        /\ threads[t].last.unwound
        /\ Len(threads[t].stack) = 1 /\ Top(threads[t]).features = DitOnly
        /\ threads[t].events[Len(threads[t].events)] = <<"unwind", 2>>
        /\ threads[t].events[Len(threads[t].events) - 1] = <<"restore", 2>>
        /\ threads[t].events[Len(threads[t].events) - 3] = <<"dsb_isb", 2>>

\* C23: a with_dit call whose Features value is Neither runs its computation
\* directly: it holds no guard (the DIT register is not read), its events
\* are call, body and return-or-unwind with no save, enable, barrier or
\* restore between them, the register holds in the computation and after
\* the call what it held at the entry, and the call returns the value its
\* computation returned.
C23_NeitherRunsDirectly ==
    \A t \in Threads :
        LET th == threads[t]
            At_(d) == SelectSeq(th.events, LAMBDA e : e[2] = d)
            Name(D, i) == IF i \in 1..Len(D) THEN D[i][1] ELSE "none"
        IN  /\ \A k \in 1..Len(th.stack) :
                  LET f == th.stack[k]
                      D == At_(k)
                  IN  (f.features = Neither /\ f.pc \in {"body", "leave"})
                         => /\ ~f.guarded
                            /\ Name(D, Len(D)) = "body"
                            /\ Name(D, Len(D) - 1) = "call"
                            /\ k = Len(th.stack) => th.dit = f.entry
            /\ (th.events # <<>> /\ th.events[Len(th.events)][1] \in {"return", "unwind"}
                    /\ th.last.features = Neither)
                  => LET D == At_(th.last.depth)
                     IN  /\ ~th.last.guarded
                         /\ Name(D, Len(D) - 1) = "body"
                         /\ Name(D, Len(D) - 2) = "call"
                         /\ th.last.exit = th.last.entry
                         /\ th.dit = th.last.entry
                         /\ ~th.last.unwound => th.last.ret = th.last.fret

\* C23's case: on a thread whose DIT register was set, a call with the
\* Features value Neither has returned the true its computation returned.
C23_Witness ==
    \E t \in Threads :
        /\ threads[t].last.depth = 1 /\ threads[t].last.features = Neither
        /\ ~threads[t].last.unwound /\ threads[t].last.ret
        /\ threads[t].last.entry = DitEnabled
        /\ threads[t].events[Len(threads[t].events)] = <<"return", 1>>

\* C24: when a vector engine makes its final test, the value it extracts
\* from the accumulated mask (the 64 bits of shrn #4 on NEON, the 16 bits of
\* pmovmskb on SSE2) has all bits set exactly when each of the 16 byte lanes
\* of the mask is 0xFF, and the engine returns true exactly then.
C24_FinalTest ==
    (run.backend # "generic"
        /\ (run.pc = "simd_final" \/ (Done /\ run.zero_tests > 0)))
        => /\ AllOnes(ExtractedMask(run)) <=> AllOnes(run.mask)
           /\ run.backend = "sse2"
                 => (movemask_epi8(run.mask) = 65535 <=> AllOnes(run.mask))
           /\ Done => (run.ret <=> AllOnes(run.mask))

\* C24's case: the NEON engine has returned false on a mask of which one
\* lane alone, the low byte of a 16-bit lane, is not 0xFF.
C24_Witness ==
    /\ Done /\ run.backend = "neon" /\ run.zero_tests > 0 /\ ~run.ret
    /\ \E i \in {1, 3, 5, 7, 9, 11, 13, 15} :
          /\ run.mask[i] = 0
          /\ \A j \in 1..LANES : j # i => run.mask[j] = 255

\* C25: in constant_time_eq_impl, for every natural word size, every chunk
\* that is read and OR-ed into the accumulator is at most as wide as Word
\* (the blocks after the Word loop run for narrower types only), so the cast
\* `as Word` of its XOR is zero exactly when the XOR is zero: no difference
\* bit is truncated away.
C25_NoTruncation ==
    [][(run.backend = "generic" /\ phase' = phase /\ run'.steps = run.steps + 1)
          => LET size == run'.readsA[Len(run'.readsA)][2]
                 diff == cmp_step_value(run, size)
             IN  /\ size <= run.W
                 /\ run'.trace[Len(run'.trace)][2]
                 /\ IsZero(AsWord(diff, run.W)) <=> IsZero(diff)
                 /\ \A j \in 1..Len(run'.trace) :
                       (/\ run'.trace[j][2]
                        /\ run'.trace[j][1] \in {"u128_loop", "u64_if", "u32_if", "u16_if", "u8_if"})
                          => (CASE run'.trace[j][1] = "u128_loop" -> SizeU128
                                [] run'.trace[j][1] = "u64_if" -> SizeU64
                                [] run'.trace[j][1] = "u32_if" -> SizeU32
                                [] run'.trace[j][1] = "u16_if" -> SizeU16
                                [] run'.trace[j][1] = "u8_if" -> SizeU8) < run.W]_vars

\* C25's case: with a 2-byte Word, constant_time_eq_impl has skipped the u64
\* and u32 blocks on 7-byte inputs that differ, read the last byte in its u8
\* block, and returned false.
C25_Witness ==
    /\ Done /\ run.backend = "generic" /\ run.W = SizeU16
    /\ Len(run.memA) = 7 /\ Len(run.memB) = 7 /\ ~run.ret
    /\ \E j \in 1..Len(run.trace) : run.trace[j] = <<"u64_if", FALSE>>
    /\ \E j \in 1..Len(run.trace) : run.trace[j] = <<"u32_if", FALSE>>
    /\ run.readsA[Len(run.readsA)] = <<6, SizeU8>>

\* C26: a call of set_aarch64_dit_sb_features that finds the cache known,
\* the override of a thread or the call the detection makes, which was set
\* by a detection or by an earlier override, leaves the cache as it is; the
\* detection still goes on with the value it computed itself, the one its
\* call returns; and a with_dit call that starts afterwards loads the cache
\* and uses the earlier value.
C26_LateSetIgnored ==
    [][(FEATURES # Unknown) =>
          \A t \in Threads :
             threads'[t] # threads[t] =>
                (/\ FEATURES' = FEATURES
                 /\ At(t, "detect") =>
                       /\ Top(threads'[t]).features = Detected(platform)
                       /\ Top(threads'[t]).detected
                 /\ At(t, "get") =>
                       /\ Top(threads'[t]).features = FEATURES
                       /\ Top(threads'[t]).pc = "match"
                       /\ ~Top(threads'[t]).detected)]_vars

\* C26's case: thread 1 called with_dit first, ran the detection, which
\* found no feature on a processor that has FEAT_DIT, and called
\* set_aarch64_dit_sb_features from inside its computation; the cache still
\* holds Neither, and another thread, which has loaded it, runs its
\* computation with Neither.
C26_Witness ==
    /\ first.kind = "with_dit" /\ threads[1].sets = 1
    /\ InBody(1) /\ Top(threads[1]).detected
    /\ "dit" \in platform.hw /\ FEATURES = Neither
    /\ \E t \in Threads :
          /\ t # 1 /\ InBody(t) /\ ~Top(threads[t]).detected
          /\ Top(threads[t]).features = Neither

\* C27: set_aarch64_dit_sb_features maps its arguments, each OR-ed with the
\* build-time target feature, to DitSb when both are true, to DitOnly when
\* dit alone is, and to Neither when dit is false, whatever sb is.  After an
\* override that came first the cache holds this value: at least the value
\* the build-time features alone give, with FEAT_DIT whenever the build has
\* it; and when dit is false no with_dit call wraps its computation, FEAT_SB
\* declared or not.
C27_OverrideMapping ==
    /\ \A dit \in BOOLEAN, sb \in BOOLEAN :
          LET d == dit \/ TargetFeature(platform, "dit")
              b == sb \/ TargetFeature(platform, "sb")
          IN  /\ (d /\ b) => FeaturesOf(platform, dit, sb) = DitSb
              /\ (d /\ ~b) => FeaturesOf(platform, dit, sb) = DitOnly
              /\ ~d => FeaturesOf(platform, dit, sb) = Neither
    /\ (first.kind = "set" /\ ~DetectCompiledOut(platform))
          => LET d == first.dit \/ TargetFeature(platform, "dit")
                 b == first.sb \/ TargetFeature(platform, "sb")
             IN  /\ FEATURES = (IF d THEN (IF b THEN DitSb ELSE DitOnly) ELSE Neither)
                 /\ FEATURES >= (IF TargetFeature(platform, "dit") THEN DitOnly ELSE Neither)
                 /\ ~d => \A t \in Threads :
                             /\ \A k \in 1..Len(threads[t].stack) :
                                   /\ ~threads[t].stack[k].guarded
                                   /\ threads[t].stack[k].pc \notin {"save", "enable", "barrier"}
                             /\ ~threads[t].last.guarded
                             /\ threads[t].dit = 0

\* C27's case: the first call of all was an override that declared FEAT_SB
\* without FEAT_DIT on a build with neither; the cache holds Neither, and a
\* thread runs its computation unwrapped.
C27_Witness ==
    /\ first.kind = "set" /\ ~first.dit /\ first.sb
    /\ platform.build = {} /\ FEATURES = Neither
    /\ \E t \in Threads : InBody(t) /\ ~Top(threads[t]).guarded

====
